---------------------------- MODULE Spec2Model ----------------------------
(***************************************************************************)
(* A model of src/main.py: the fear/greed index pipeline.                  *)
(*                                                                         *)
(*   - the floating-point values of the six statistics are modelled as     *)
(*     exact rationals plus the special values NaN, +inf and -inf;         *)
(*   - the percentiles, the sub-scores and the composite scores, which the *)
(*     program rounds where the exact value can be a tie, are computed in  *)
(*     doubles, operation by operation;                                    *)
(*   - the weights the optimizer returns are the exact minimiser of its    *)
(*     problem, ratios of natural numbers of any size;                     *)
(*   - dates are day numbers counted from Monday 2024-01-01; the text a    *)
(*     date is formatted to is the tuple <<year, month, day>>, whose       *)
(*     lexicographic order is the order of the "%Y-%m-%d" strings;         *)
(*   - scores that the program rounds to two decimals are integers in      *)
(*     hundredths (5000 is 50.0).                                          *)
(***************************************************************************)
EXTENDS Integers, Sequences, FiniteSets, TLC

(***************************************************************************)
(* Floating-point values.                                                  *)
(***************************************************************************)
RECURSIVE Gcd(_, _)
Gcd(a, b) == IF b = 0 THEN a ELSE Gcd(b, a % b)

Abs(x) == IF x < 0 THEN -x ELSE x

NaN  == [k |-> "nan",  n |-> 0, d |-> 1]
PInf == [k |-> "pinf", n |-> 0, d |-> 1]
NInf == [k |-> "ninf", n |-> 0, d |-> 1]
\* A cell holding text that is not a number ("--", "N/A").
Str  == [k |-> "str",  n |-> 0, d |-> 1]

\* The finite value n/d, d # 0, in lowest terms with a positive denominator.
Num(n, d) ==
    LET g == Gcd(Abs(n), Abs(d))
        s == IF d < 0 THEN -1 ELSE 1
    IN  [k |-> "num", n |-> s * (n \div g), d |-> s * (d \div g)]

Int2F(i) == [k |-> "num", n |-> i, d |-> 1]

IsNum(x) == x.k = "num"
\* pd.isna
IsNa(x) == x.k = "nan"

Neg(x) ==
    CASE x.k = "num"  -> [x EXCEPT !.n = -x.n]
      [] x.k = "pinf" -> NInf
      [] x.k = "ninf" -> PInf
      [] OTHER        -> NaN

FAdd(x, y) ==
    CASE x.k = "nan" \/ y.k = "nan"         -> NaN
      [] x.k = "num" /\ y.k = "num"         -> Num(x.n * y.d + y.n * x.d, x.d * y.d)
      [] x.k = "num"                        -> y
      [] y.k = "num"                        -> x
      [] x.k = y.k                          -> x
      [] OTHER                              -> NaN

FSub(x, y) == FAdd(x, Neg(y))

FSign(x) ==
    CASE x.k = "pinf" -> 1
      [] x.k = "ninf" -> -1
      [] x.k = "num"  -> (IF x.n > 0 THEN 1 ELSE IF x.n < 0 THEN -1 ELSE 0)
      [] OTHER        -> 0

FMul(x, y) ==
    CASE x.k = "nan" \/ y.k = "nan"  -> NaN
      [] x.k = "num" /\ y.k = "num"  -> Num(x.n * y.n, x.d * y.d)
      [] FSign(x) * FSign(y) > 0     -> PInf
      [] FSign(x) * FSign(y) < 0     -> NInf
      [] OTHER                       -> NaN

\* IEEE division as numpy and pandas do it: x/0 is +-inf, 0/0 is NaN.
FDiv(x, y) ==
    CASE x.k = "nan" \/ y.k = "nan"               -> NaN
      [] x.k = "num" /\ y.k = "num" /\ y.n # 0    -> Num(x.n * y.d, x.d * y.n)
      [] x.k = "num" /\ y.k = "num" /\ x.n > 0    -> PInf
      [] x.k = "num" /\ y.k = "num" /\ x.n < 0    -> NInf
      [] x.k = "num" /\ y.k = "num"               -> NaN
      [] x.k = "num"                              -> Int2F(0)
      [] y.k = "num" /\ y.n >= 0                  -> x
      [] y.k = "num"                              -> Neg(x)
      [] OTHER                                    -> NaN

\* x <= y on floats; false when either is NaN.
FLeq(x, y) ==
    CASE x.k = "nan" \/ y.k = "nan"  -> FALSE
      [] x.k = "ninf"                -> TRUE
      [] y.k = "pinf"                -> TRUE
      [] x.k = "pinf"                -> FALSE
      [] y.k = "ninf"                -> FALSE
      [] OTHER                       -> x.n * y.d <= y.n * x.d

\* round(x, 2) of a finite value, in hundredths: the nearest, ties to even.
Round2(x) ==
    LET num == 100 * x.n
        q   == num \div x.d
        r   == num % x.d
    IN  IF 2 * r < x.d THEN q
        ELSE IF 2 * r > x.d THEN q + 1
        ELSE IF q % 2 = 0 THEN q ELSE q + 1

(***************************************************************************)
(* Natural numbers of any size, as their digits in base 2^LimbBits, the    *)
(* lowest first and the highest not 0; <<>> is zero.                       *)
(***************************************************************************)
RECURSIVE Pow2(_)
Pow2(k) == IF k = 0 THEN 1 ELSE 2 * Pow2(k - 1)

LimbBits == 15
Base == Pow2(LimbBits)

RECURSIVE BNorm(_)
BNorm(x) == IF x = <<>> \/ x[Len(x)] # 0 THEN x ELSE BNorm(SubSeq(x, 1, Len(x) - 1))

RECURSIVE BFromInt(_)
BFromInt(n) == IF n = 0 THEN <<>> ELSE <<n % Base>> \o BFromInt(n \div Base)

RECURSIVE BToInt(_)
BToInt(x) == IF x = <<>> THEN 0 ELSE x[1] + Base * BToInt(Tail(x))

BLimb(x, j) == IF j <= Len(x) THEN x[j] ELSE 0

RECURSIVE BAddFrom(_, _, _, _)
BAddFrom(x, y, j, c) ==
    IF j > Len(x) /\ j > Len(y) THEN (IF c = 0 THEN <<>> ELSE <<c>>)
    ELSE LET t == BLimb(x, j) + BLimb(y, j) + c
         IN  <<t % Base>> \o BAddFrom(x, y, j + 1, t \div Base)

BAdd(x, y) == BAddFrom(x, y, 1, 0)

\* x - y for x >= y
RECURSIVE BSubFrom(_, _, _, _)
BSubFrom(x, y, j, b) ==
    IF j > Len(x) THEN <<>>
    ELSE LET t == x[j] - BLimb(y, j) - b
         IN  <<(t + Base) % Base>> \o BSubFrom(x, y, j + 1, IF t < 0 THEN 1 ELSE 0)

BSub(x, y) == BNorm(BSubFrom(x, y, 1, 0))

RECURSIVE BLessFrom(_, _, _)
BLessFrom(x, y, j) ==
    IF j = 0 THEN FALSE
    ELSE IF x[j] # y[j] THEN x[j] < y[j] ELSE BLessFrom(x, y, j - 1)

BLess(x, y) == IF Len(x) # Len(y) THEN Len(x) < Len(y) ELSE BLessFrom(x, y, Len(x))

\* x * k for 0 <= k <= Base
RECURSIVE BMulSmallFrom(_, _, _, _)
BMulSmallFrom(x, k, j, c) ==
    IF j > Len(x) THEN BFromInt(c)
    ELSE LET t == x[j] * k + c
         IN  <<t % Base>> \o BMulSmallFrom(x, k, j + 1, t \div Base)

BMulSmall(x, k) == IF k = 0 THEN <<>> ELSE BMulSmallFrom(x, k, 1, 0)

\* Quotient and remainder of x by k, 0 < k < 2 * Base: the limbs x[1..j] are
\* still to bring down, r is the remainder so far and q the digits found.
\* Each step is worked out before the next one is taken.
RECURSIVE BDivFrom(_, _, _, _, _)
BDivFrom(x, k, j, r, q) ==
    IF j = 0 THEN [q |-> q, r |-> r]
    ELSE LET acc  == r * Base + x[j]
             more == <<acc \div k>> \o q
         IN  IF Len(more) > 0 THEN BDivFrom(x, k, j - 1, acc % k, more) ELSE more

BDivTrim(out) == [q |-> BNorm(out.q), r |-> out.r]
BDivSmall(x, k) == BDivTrim(BDivFrom(x, k, Len(x), 0, <<>>))

BShlLimbs(x, n) == IF x = <<>> THEN x ELSE [j \in 1..n |-> 0] \o x
BShrLimbs(x, n) == IF Len(x) <= n THEN <<>> ELSE SubSeq(x, n + 1, Len(x))
BShl(x, bits) == BShlLimbs(BMulSmall(x, Pow2(bits % LimbBits)), bits \div LimbBits)
BShr(x, bits) == BDivSmall(BShrLimbs(x, bits \div LimbBits), Pow2(bits % LimbBits)).q

\* The lowest `bits` bits of x are all 0.
BLowZero(x, bits) ==
    /\ \A j \in 1..(bits \div LimbBits) : BLimb(x, j) = 0
    /\ BLimb(x, bits \div LimbBits + 1) % Pow2(bits % LimbBits) = 0

RECURSIVE Bits(_)
Bits(n) == IF n = 0 THEN 0 ELSE 1 + Bits(n \div 2)

BBits(x) == IF x = <<>> THEN 0 ELSE LimbBits * (Len(x) - 1) + Bits(x[Len(x)])
BOdd(x) == BLimb(x, 1) % 2 = 1

\* x * y: acc is x times the limbs of y above y[j].  Each step is worked
\* out before the next one is taken.
RECURSIVE BMulFrom(_, _, _, _)
BMulFrom(x, y, j, acc) ==
    IF j = 0 THEN acc
    ELSE LET more == BAdd(BMulSmall(x, y[j]), BShlLimbs(acc, 1))
         IN  IF Len(more) >= 0 THEN BMulFrom(x, y, j - 1, more) ELSE more

BMul(x, y) == BMulFrom(x, y, Len(y), <<>>)

\* The greatest q <= guess with b * q <= r.
RECURSIVE BFit(_, _, _)
BFit(b, r, guess) ==
    IF BLess(r, BMulSmall(b, guess)) THEN BFit(b, r, guess - 1) ELSE guess

\* The digit of a step of the long division by b: the greatest dig with
\* b * dig <= acc.  The guess made from the two highest limbs of acc is at
\* most 2 above it.
BDivDigit(b, acc) ==
    LET est == (BLimb(acc, Len(b) + 1) * Base + BLimb(acc, Len(b))) \div b[Len(b)]
    IN  BFit(b, acc, IF est >= Base THEN Base - 1 ELSE est)

\* Long division by b, whose highest limb is Base / 2 or more: the limbs
\* a[1..j] are still to bring down, r < b is the remainder so far and q the
\* digits found.  Each step is worked out before the next one is taken.
RECURSIVE BDivLimbs(_, _, _, _, _)
BDivTake(a, b, j, q, acc, dig) ==
    BDivLimbs(a, b, j - 1, BSub(acc, BMulSmall(b, dig)), <<dig>> \o q)
BDivBring(a, b, j, q, acc) == BDivTake(a, b, j, q, acc, BDivDigit(b, acc))
BDivLimbs(a, b, j, r, q) ==
    IF j = 0 \/ Len(r) < 0 \/ Len(q) < 0 THEN [q |-> q, r |-> r]
    ELSE BDivBring(a, b, j, q, BNorm(<<a[j]>> \o r))

\* The quotient of a by b, the highest limb of b Base / 2 or more.  The
\* limbs of a above the lowest that can hold a digit of the quotient are the
\* first remainder.
BDivQuot(out) == [q |-> BNorm(out.q), exact |-> out.r = <<>>]
BDivNormal(a, b) ==
    BDivQuot(IF Len(a) < Len(b) THEN [q |-> <<>>, r |-> a]
             ELSE BDivLimbs(a, b, Len(a) - Len(b) + 1,
                            SubSeq(a, Len(a) - Len(b) + 2, Len(a)), <<>>))

\* The quotient of x by y # 0, and whether the division is exact.
BDivMod(x, y) ==
    BDivNormal(BShl(x, LimbBits - Bits(y[Len(y)])), BShl(y, LimbBits - Bits(y[Len(y)])))

(***************************************************************************)
(* Integers of any size: a sign and a natural number, zero not negative.   *)
(***************************************************************************)
ZInt(k) == [neg |-> k < 0, m |-> BFromInt(IF k < 0 THEN -k ELSE k)]
Zero == ZInt(0)

ZNeg(x) == IF x.m = <<>> THEN x ELSE [neg |-> ~x.neg, m |-> x.m]

ZAdd(x, y) ==
    IF x.neg = y.neg THEN [neg |-> x.neg, m |-> BAdd(x.m, y.m)]
    ELSE IF BLess(x.m, y.m) THEN [neg |-> y.neg, m |-> BSub(y.m, x.m)]
    ELSE LET d == BSub(x.m, y.m) IN [neg |-> x.neg /\ d # <<>>, m |-> d]

ZSub(x, y) == ZAdd(x, ZNeg(y))

ZMul(x, y) ==
    LET m == BMul(x.m, y.m) IN [neg |-> m # <<>> /\ x.neg # y.neg, m |-> m]

\* x / y for y # 0 that divides x
ZDiv(x, y) ==
    LET m == BDivMod(x.m, y.m).q IN [neg |-> m # <<>> /\ x.neg # y.neg, m |-> m]

\* (a * b - c * d) / y for y # 0 that divides it; the numerator is worked out
\* before the division.
ZExact(num, y) == IF num.m = <<>> THEN Zero ELSE ZDiv(num, y)
ZCross(a, b, c, d, y) == ZExact(ZSub(ZMul(a, b), ZMul(c, d)), y)

ZLeq(x, y) ==
    IF x.neg # y.neg THEN x.neg
    ELSE IF x.neg THEN ~BLess(x.m, y.m) ELSE ~BLess(y.m, x.m)

RECURSIVE ZSum(_, _)
\* s[1] + ... + s[j]
ZSum(s, j) == IF j = 0 THEN Zero ELSE ZAdd(ZSum(s, j - 1), s[j])

\* The sequence with every entry worked out.
Settled(s) == SelectSeq(s, LAMBDA e : TRUE)

\* Fraction-free elimination (Bareiss) on the m rows of m + 1 integers of M,
\* from step k on, prev the pivot of the step before: whether every pivot is
\* not 0, and the rows in echelon form.  Every division is exact.
RECURSIVE Eliminate(_, _, _)
Eliminate(M, k, prev) ==
    IF k > Len(M) THEN [ok |-> TRUE, M |-> M]
    ELSE IF M[k][k].m = <<>> THEN [ok |-> FALSE, M |-> M]
    ELSE LET piv  == M[k][k]
             rows == Settled([r \in 1..Len(M) |->
                        IF r <= k THEN M[r]
                        ELSE Settled([c \in 1..(Len(M) + 1) |->
                                IF c <= k THEN Zero
                                ELSE ZCross(piv, M[r][c], M[r][k], M[k][c], prev)])])
         IN  Eliminate(rows, k + 1, piv)

\* s[1] + ... + s[Len(s)]
ZSumAll(s) == ZSum(s, Len(s))

\* The numerators, over the determinant det, of the solution of the rows in
\* echelon form: above holds those of the rows after row r.  Each row is
\* worked out before the next one is taken.
RECURSIVE BackSubstitute(_, _, _, _)
BackSubstitute(M, det, r, above) ==
    IF r = 0 \/ Len(above) < 0 THEN above
    ELSE BackSubstitute(M, det, r - 1,
            <<ZExact(ZSub(ZMul(det, M[r][Len(M) + 1]),
                          ZSumAll(Settled([c \in 1..Len(above) |->
                                              ZMul(M[r][r + c], above[c])]))),
                     M[r][r])>> \o above)

\* The solution read off the rows ech.M, n of them, in echelon form.
Solved(ech, n) ==
    IF ~ech.ok THEN [ok |-> FALSE, det |-> Zero, N |-> <<>>]
    ELSE [ok |-> TRUE, det |-> ech.M[n][n],
          N |-> BackSubstitute(ech.M, ech.M[n][n], n, <<>>)]

\* The solution x of A x = b for the rows M = [A | b], A symmetric and
\* positive semidefinite: x[j] = N[j] / det, or not ok when A is singular.
SolveLinear(M) ==
    IF Len(M) = 0 THEN [ok |-> TRUE, det |-> ZInt(1), N |-> <<>>]
    ELSE Solved(Eliminate(M, 1, ZInt(1)), Len(M))

(***************************************************************************)
(* Doubles.  The composite scores are doubles rounded at two decimals, and *)
(* whether a value whose exact decimal is a tie x.xx5 goes up or down is   *)
(* decided by the rounding errors of the operations before it.  A double   *)
(* that is 0 or in [2^-22, 2^15) is held as the number of units of         *)
(* 2^-(FracLimbs * LimbBits) it is worth: every such double is a whole     *)
(* number of them.                                                         *)
(***************************************************************************)
FracLimbs == 5
Mant == 53

\* q with the s bits dropped put back as zeros, one more when the bits
\* dropped are above the half (half and rest) or are the half and q is odd.
RoundEven(q, half, rest, s) ==
    BShl(IF half /\ (rest \/ BOdd(q)) THEN BAdd(q, <<1>>) ELSE q, s)
RoundHalf(q2, rest, s) == RoundEven(BShr(q2, 1), BOdd(q2), rest, s)

\* The double nearest to n units, ties to even; sticky: the value is a
\* little above n units.
Round53(n, sticky) ==
    IF BBits(n) <= Mant THEN n
    ELSE RoundHalf(BShr(n, BBits(n) - Mant - 1),
                   sticky \/ ~BLowZero(n, BBits(n) - Mant - 1), BBits(n) - Mant)

\* The double nearest to a quotient with its remainder.
RoundQuot(out) == Round53(out.q, out.r # 0)

\* The double of the decimal text n/d, n >= 0, 0 < d < 2 * Base
ToDouble(n, d) == RoundQuot(BDivSmall(BShlLimbs(BFromInt(n), FracLimbs), d))

\* The whole number k, 0 <= k < 2^15
DInt(k) == BShlLimbs(BFromInt(k), FracLimbs)

\* a + b, |a - b|, a * b and a / k in doubles
DAdd(a, b) == Round53(BAdd(a, b), FALSE)
DDist(a, b) == Round53(IF BLess(a, b) THEN BSub(b, a) ELSE BSub(a, b), FALSE)
RoundProduct(p) == Round53(BShrLimbs(p, FracLimbs), ~BLowZero(p, FracLimbs * LimbBits))
DMul(a, b) == RoundProduct(BMul(a, b))
DDiv(a, k) == RoundQuot(BDivSmall(a, k))

\* The whole number nearest to m units, an exact tie to the even one.
Nearest(m) ==
    LET q    == BToInt(BShrLimbs(m, FracLimbs))
        top  == BLimb(m, FracLimbs)
        rest == top % (Base \div 2) # 0 \/ ~BLowZero(m, (FracLimbs - 1) * LimbBits)
    IN  IF top >= Base \div 2 /\ (rest \/ q % 2 = 1) THEN q + 1 ELSE q

\* round(a, 2) in hundredths: the decimal nearest to the double's exact
\* value, an exact tie to the even one.
DRound2(a) == Nearest(BMulSmall(a, 100))

\* numpy's round(a, 2) in hundredths: rint(a * 100), the product a double,
\* a tie of the product to the even one.
NpRound2(a) == Nearest(DMul(a, DInt(100)))

\* The sums ds[1], ds[1] + ds[2], ... up to ds[j], each rounded as it is formed.
RECURSIVE DSums(_, _)
DSums(ds, j) ==
    IF j = 1 THEN <<ds[1]>>
    ELSE LET before == DSums(ds, j - 1)
         IN  Append(before, DAdd(before[j - 1], ds[j]))

\* ds[1] + ... + ds[n] added one after another.
DSumNaive(ds) == IF ds = <<>> THEN <<>> ELSE DSums(ds, Len(ds))[Len(ds)]

RECURSIVE BSumAll(_, _)
BSumAll(ds, j) == IF j = 0 THEN <<>> ELSE BAdd(BSumAll(ds, j - 1), ds[j])

\* The builtin sum of a list of floats.  CPython up to 3.11 adds them one
\* after another; from 3.12 on it carries the rounding errors along
\* (Neumaier's summation), which for six scores in [0, 100] gives the exact
\* sum rounded once.
float_sum(ds, compensated) ==
    IF compensated THEN Round53(BSumAll(ds, Len(ds)), FALSE)
    ELSE DSumNaive(ds)

(***************************************************************************)
(* Series helpers.                                                         *)
(***************************************************************************)
\* pd.to_numeric(series, errors='coerce'): text that is no number becomes NaN.
ToNumericCoerce(s) == [i \in 1..Len(s) |-> IF s[i].k = "str" THEN NaN ELSE s[i]]

\* Series.dropna
DropNa(s) == SelectSeq(s, LAMBDA x : ~IsNa(x))

\* Series.tail(k)
Tail_(s, k) == IF Len(s) <= k THEN s ELSE SubSeq(s, Len(s) - k + 1, Len(s))

\* Number of entries of s that are <= v.
CountLeq(s, v) == Cardinality({i \in 1..Len(s) : FLeq(s[i], v)})

MinStat == 10
ScoreWindow == 750

\* The percentile of kind='strict': the values below the score only.
PercentileStrict(a, score, prescaled) ==
    LET below == Cardinality({j \in 1..Len(a) : FLeq(a[j], score) /\ a[j] # score})
    IN  IF prescaled THEN DMul(DInt(below), DDiv(DInt(100), Len(a)))
        ELSE DMul(DDiv(DInt(below), Len(a)), DInt(100))

\* scipy.stats.percentileofscore(a, score, kind='weak'), a double: the count
\* of the values <= score times 100.0 / n from scipy 1.9 on (prescaled), the
\* count over n times 100 before.
PercentileWeak(a, score, prescaled) ==
    IF prescaled THEN DMul(DInt(CountLeq(a, score)), DDiv(DInt(100), Len(a)))
    ELSE DMul(DDiv(DInt(CountLeq(a, score)), Len(a)), DInt(100))

\* A double with its sign: 100 - p is below zero when p, rounded, is a
\* little above 100.
Plus(u) == [neg |-> FALSE, u |-> u]
Neutral == Plus(DInt(50))

\* float(100 - p if invert else p)
Directed(p, invert) ==
    IF invert THEN [neg |-> BLess(DInt(100), p), u |-> DDist(DInt(100), p)]
    ELSE Plus(p)

\* calculate_factors.get_score
get_score(series, current_val, invert, prescaled) ==
    LET s == DropNa(ToNumericCoerce(series))
    IN  IF Len(s) < MinStat \/ IsNa(current_val) THEN Neutral
        ELSE LET s_window == Tail_(s, ScoreWindow)
                 p == PercentileWeak(s_window, current_val, prescaled)
             IN  Directed(p, invert)

\* round(x, 2) of line 164, in hundredths; -0.0 and 0.0 are both 0.
RoundScore(x) == IF x.neg THEN -DRound2(x.u) ELSE DRound2(x.u)

(***************************************************************************)
(* Dates.  Day 0 is Monday 2024-01-01.                                     *)
(***************************************************************************)
EpochYear == 2000 + 24

IsLeap(y) == (y % 4 = 0 /\ y % 100 # 0) \/ y % 400 = 0
YearLen(y) == IF IsLeap(y) THEN 366 ELSE 365
MonthLen(y, m) ==
    IF m = 2 THEN (IF IsLeap(y) THEN 29 ELSE 28)
    ELSE IF m \in {4, 6, 9, 11} THEN 30 ELSE 31

RECURSIVE YmdFrom(_, _, _)
\* The calendar date that is `rest` days after the first of month m of year y.
YmdFrom(y, m, rest) ==
    IF rest >= MonthLen(y, m)
    THEN IF m = 12 THEN YmdFrom(y + 1, 1, rest - MonthLen(y, m))
                   ELSE YmdFrom(y, m + 1, rest - MonthLen(y, m))
    ELSE <<y, m, rest + 1>>

\* date.strftime("%Y-%m-%d") and date.strftime("%Y%m%d"): the digits of the
\* year, the month and the day, as the tuple <<year, month, day>>.
strftime(d) == YmdFrom(EpochYear, 1, d)

RECURSIVE DaysBefore(_, _)
\* Days from the epoch to the first of month m of year y.
DaysBefore(y, m) ==
    IF m > 1 THEN DaysBefore(y, m - 1) + MonthLen(y, m - 1)
    ELSE IF y > EpochYear THEN DaysBefore(y - 1, 12) + MonthLen(y - 1, 12)
    ELSE 0

\* pd.to_datetime(text).dt.date: the date a provider's date text names.
to_date(ymd) == DaysBefore(ymd[1], ymd[2]) + ymd[3] - 1

\* date.weekday(): Monday is 0.
weekday(d) == d % 7

is_workday(d_obj) == weekday(d_obj) < 5

\* Lexicographic order of two formatted dates.
YmdLess(a, b) ==
    \/ a[1] < b[1]
    \/ a[1] = b[1] /\ a[2] < b[2]
    \/ a[1] = b[1] /\ a[2] = b[2] /\ a[3] < b[3]

(***************************************************************************)
(* Data frames: cols is the sequence of column names, rows the sequence    *)
(* of rows, each a function from column names to cells.                    *)
(***************************************************************************)
\* pd.DataFrame()
EmptyFrame == [cols |-> <<>>, rows |-> <<>>]

HasCol(df, c) == \E i \in 1..Len(df.cols) : df.cols[i] = c

\* DataFrame.empty: no rows or no columns.
IsEmpty(df) == Len(df.rows) = 0 \/ Len(df.cols) = 0

\* df[name] = pd.to_datetime(df[src]).dt.date
WithDateCol(df, src, name) ==
    [cols |-> IF HasCol(df, name) THEN df.cols ELSE Append(df.cols, name),
     rows |-> [i \in 1..Len(df.rows) |->
                 [c \in (DOMAIN df.rows[i]) \cup {name} |->
                     IF c = name THEN to_date(df.rows[i][src]) ELSE df.rows[i][c]]]]

\* The frame left uncut.
CutRowsAll(rows, col, target_date) == rows

\* df[df[col] <= target_date]
CutRows(rows, col, target_date) == SelectSeq(rows, LAMBDA r : r[col] <= target_date)

\* The column names that contain the text the program looks for: '市盈率',
\* '市盈率' with 'TTM', '10年', '融资余额'.
HasPE     == {"PE1", "PE2", "PE_TTM"}
HasTTM    == {"PE_TTM"}
Has10Y    == {"CN10Y", "US10Y"}
HasMargin == {"RZYE", "RZYE_SH"}

NoCol == "<none>"

\* next((c for c in columns if test(c)), None)
FirstCol(cols, wanted) ==
    LET hits == SelectSeq(cols, LAMBDA c : c \in wanted)
    IN  IF Len(hits) = 0 THEN NoCol ELSE hits[1]

(***************************************************************************)
(* The factor engine.                                                      *)
(***************************************************************************)
MinPrice == 30
VolWin   == 20
MeanWin  == 20
HighWin  == 250

Column(rows, c) == [i \in 1..Len(rows) |-> rows[i][c]]

RECURSIVE SumF(_, _, _)
\* s[lo] + ... + s[hi]
SumF(s, lo, hi) == IF lo > hi THEN Int2F(0) ELSE FAdd(s[lo], SumF(s, lo + 1, hi))

\* max(s[lo], ..., s[hi]), the entries finite
MaxF(s, lo, hi) ==
    LET vals == {s[j] : j \in lo..hi}
    IN  CHOOSE m \in vals : \A v \in vals : FLeq(v, m)

RECURSIVE Flatten(_, _, _)
\* ss[lo] \o ... \o ss[hi]
Flatten(ss, lo, hi) ==
    IF lo > hi THEN <<>>
    ELSE IF lo = hi THEN ss[lo]
    ELSE LET mid == (lo + hi) \div 2
         IN  Flatten(ss, lo, mid) \o Flatten(ss, mid + 1, hi)

AllNum(s, lo, hi) == \A j \in lo..hi : IsNum(s[j])

\* Series.pct_change(): s[i] / s[i-1] - 1, the first entry NaN.
pct_change(s) ==
    [i \in 1..Len(s) |-> IF i = 1 THEN NaN ELSE FSub(FDiv(s[i], s[i - 1]), Int2F(1))]

\* Series.rolling(w).std(), squared: the sample variance (ddof = 1) of each
\* full window of w finite entries, NaN elsewhere.  The square root is
\* strictly increasing, so ranks and NaNs of .std() are those of the variance.
rolling_var(s, w) ==
    LET sq == [i \in 1..Len(s) |-> FMul(s[i], s[i])]
    IN  [i \in 1..Len(s) |->
            IF i < w \/ ~AllNum(s, i - w + 1, i) THEN NaN
            ELSE LET s1 == SumF(s, i - w + 1, i)
                     s2 == SumF(sq, i - w + 1, i)
                 IN  FDiv(FSub(FMul(Int2F(w), s2), FMul(s1, s1)), Int2F(w * (w - 1)))]

\* Series.rolling(w).mean()
rolling_mean(s, w) ==
    [i \in 1..Len(s) |->
        IF i < w \/ ~AllNum(s, i - w + 1, i) THEN NaN
        ELSE FDiv(SumF(s, i - w + 1, i), Int2F(w))]

\* Series.rolling(w).max()
rolling_max(s, w) ==
    [i \in 1..Len(s) |->
        IF i < w \/ ~AllNum(s, i - w + 1, i) THEN NaN
        ELSE MaxF(s, i - w + 1, i)]

Last(s) == s[Len(s)]

\* vol of line 107, squared
Stat1(cut_p) == rolling_var(pct_change(Column(cut_p, "close")), VolWin)

\* [f1] 20-day volatility, inverted (lines 106-108)
Factor1(cut_p, prescaled) == LET vol == Stat1(cut_p) IN get_score(vol, Last(vol), TRUE, prescaled)

\* vol_ratio of line 111
Stat2(cut_p) ==
    LET v == Column(cut_p, "volume")
        m == rolling_mean(v, MeanWin)
    IN  [i \in 1..Len(v) |-> FDiv(v[i], m[i])]

\* [f2] volume over its 20-day mean (lines 110-112)
Factor2(cut_p, prescaled) ==
    LET vol_ratio == Stat2(cut_p) IN get_score(vol_ratio, Last(vol_ratio), FALSE,
                                                     prescaled)

\* strength of lines 115-116
Stat3(cut_p) ==
    LET c == Column(cut_p, "close")
        high_250 == rolling_max(c, HighWin)
    IN  [i \in 1..Len(c) |-> FDiv(c[i], high_250[i])]

\* [f3] close over its 250-day high (lines 114-117)
Factor3(cut_p, prescaled) ==
    LET strength == Stat3(cut_p) IN get_score(strength, Last(strength), FALSE, prescaled)

\* pd.merge(left, right, on='date'): the inner join, in the order of the left
\* rows; each result row is <<close_spot, close_fut>>.
MergeOnDate(left, right) ==
    LET per == [i \in 1..Len(left) |->
                  LET hits == SelectSeq(right, LAMBDA r : r["date"] = left[i]["date"])
                  IN  [j \in 1..Len(hits) |-> <<left[i]["close"], hits[j]["close"]>>]]
    IN  Flatten(per, 1, Len(left))

\* merged['basis_rate'] of lines 123-127
Stat4(cut_p, target_date, _df_fut) ==
    LET cut_f  == CutRows(_df_fut.rows, "date", target_date)
        merged == MergeOnDate(cut_p, cut_f)
    IN  [i \in 1..Len(merged) |-> FDiv(FSub(merged[i][2], merged[i][1]), merged[i][1])]

\* [f4] futures basis rate (lines 119-128)
Factor4(cut_p, target_date, _df_fut, prescaled) ==
    IF IsEmpty(_df_fut) THEN Neutral
    ELSE LET basis_rate == Stat4(cut_p, target_date, _df_fut)
         IN  IF Len(basis_rate) = 0 THEN Neutral
             ELSE get_score(basis_rate, Last(basis_rate), FALSE, prescaled)

\* The valuation column: the first P/E TTM column, else the first P/E column.
PeCol(_df_val) ==
    IF FirstCol(_df_val.cols, HasTTM) # NoCol THEN FirstCol(_df_val.cols, HasTTM)
    ELSE FirstCol(_df_val.cols, HasPE)

RateCol(_df_bond) == FirstCol(_df_bond.cols, Has10Y)

\* cut_v.set_index('date_key')[[pe]].join(cut_b.set_index('date_key')[[rate]]):
\* the left join on the date, in the order of the left rows, a missing right
\* row giving NaN; each result row is <<pe, rate>>.
JoinLeft(left, pe, right, rate) ==
    LET per == [i \in 1..Len(left) |->
                  LET hits == SelectSeq(right,
                                  LAMBDA r : r["date_key"] = left[i]["date_key"])
                  IN  IF Len(hits) = 0 THEN << <<left[i][pe], NaN>> >>
                      ELSE [j \in 1..Len(hits) |-> <<left[i][pe], hits[j][rate]>>]]
    IN  Flatten(per, 1, Len(left))

\* cut_v.join(cut_b).dropna() of lines 141-145
ErpFrame(target_date, _df_val, _df_bond) ==
    LET cut_v == CutRows(_df_val.rows, "date_key", target_date)
        cut_b == CutRows(_df_bond.rows, "date_key", target_date)
    IN  SelectSeq(JoinLeft(cut_v, PeCol(_df_val), cut_b, RateCol(_df_bond)),
                  LAMBDA r : ~IsNa(r[1]) /\ ~IsNa(r[2]))

HasErpCols(_df_val, _df_bond) == PeCol(_df_val) # NoCol /\ RateCol(_df_bond) # NoCol

\* erp_series of line 147
Stat5(erp_df) ==
    [i \in 1..Len(erp_df) |->
        FSub(FDiv(Int2F(1), erp_df[i][1]), FDiv(erp_df[i][2], Int2F(100)))]

\* [f5] equity risk premium 1/PE - yield/100 (lines 130-149)
Factor5(target_date, _df_val, _df_bond, prescaled) ==
    IF ~HasErpCols(_df_val, _df_bond) THEN Neutral
    ELSE LET erp_series == Stat5(ErpFrame(target_date, _df_val, _df_bond))
         IN  IF Len(erp_series) = 0 THEN Neutral
             ELSE get_score(erp_series, Last(erp_series), FALSE, prescaled)

\* m_val of line 160
Stat6(cut_m, margin_col) == ToNumericCoerce(Column(cut_m, margin_col))

\* [f6] margin balance (lines 151-162)
Factor6(target_date, _df_margin, prescaled) ==
    IF IsEmpty(_df_margin) THEN Neutral
    ELSE LET cut_m == CutRows(_df_margin.rows, "date_key", target_date)
             margin_col == FirstCol(_df_margin.cols, HasMargin)
         IN  IF Len(cut_m) = 0 \/ margin_col = NoCol THEN Neutral
             ELSE LET m_val == Stat6(cut_m, margin_col)
                  IN  get_score(m_val, Last(m_val), FALSE, prescaled)

\* The statements of the try block that raise: a price frame without its
\* columns (KeyError, line 90), and pd.to_numeric without errors='coerce' on a
\* P/E or yield cell holding text (ValueError, line 147).
FactorsRaise(target_date, _df_p, _df_val, _df_bond) ==
    \/ ~HasCol(_df_p, "date")
    \/ /\ Len(CutRows(_df_p.rows, "date", target_date)) >= MinPrice
       /\ HasErpCols(_df_val, _df_bond)
       /\ LET erp_df == ErpFrame(target_date, _df_val, _df_bond)
          IN  \E i \in 1..Len(erp_df) : erp_df[i][1].k = "str" \/ erp_df[i][2].k = "str"

AllNeutral == [j \in 1..6 |-> 5000]

\* calculate_factors: the six sub-scores, in hundredths.
calculate_factors(target_date, _df_p, _df_fut, _df_val, _df_bond, _df_margin, prescaled) ==
    IF FactorsRaise(target_date, _df_p, _df_val, _df_bond) THEN AllNeutral
    ELSE LET cut_p == CutRows(_df_p.rows, "date", target_date)
         IN  IF Len(cut_p) < MinPrice THEN AllNeutral
             ELSE << RoundScore(Factor1(cut_p, prescaled)),
                     RoundScore(Factor2(cut_p, prescaled)),
                     RoundScore(Factor3(cut_p, prescaled)),
                     RoundScore(Factor4(cut_p, target_date, _df_fut, prescaled)),
                     RoundScore(Factor5(target_date, _df_val, _df_bond, prescaled)),
                     RoundScore(Factor6(target_date, _df_margin, prescaled)) >>

(***************************************************************************)
(* The data providers (akshare), outside the program: what each returns    *)
(* when asked on day `today` in market `mkt`.  mkt fixes the first day of  *)
(* each series and the cells that are degenerate.                          *)
(***************************************************************************)
\* The workdays lo..hi, ascending.
Workdays(lo, hi) ==
    SelectSeq([i \in 1..(IF hi < lo THEN 0 ELSE hi - lo + 1) |-> lo + i - 1], is_workday)

\* A repeatable scatter of the days over 0..m-1.
Mix(d, salt, m) == ((d * d) + salt * d + (d \div 7)) % m

CloseOn(d) == Int2F(10 * (1 + Mix(d, 3, 3)))
VolumeOn(mkt, d) == IF d >= mkt.halt THEN Int2F(0) ELSE Int2F(100 * (1 + Mix(d, 5, 4)))
FutCloseOn(d) == Int2F(10 * (1 + Mix(d, 3, 3)) + Mix(d, 1, 3) - 1)
PeOn(mkt, d) ==
    IF d = mkt.badpe THEN Str
    ELSE IF d = mkt.zeroday THEN Int2F(0)
    ELSE Int2F(10 + Mix(d, 2, 4))
RateOn(d) == Int2F(2 + Mix(d, 4, 2))
MarginOn(mkt, d) ==
    IF d = mkt.zeroday THEN Str ELSE Int2F(1000 + 10 * Mix(d, 6, mkt.mspan))

\* ak.stock_zh_index_daily(symbol="sh000300")
PriceData(mkt, today) ==
    [cols |-> <<"date", "close", "volume">>,
     rows |-> LET wd == Workdays(mkt.pstart, today) IN [i \in 1..Len(wd) |->
                 LET d == wd[i]
                 IN  [date |-> strftime(d), close |-> CloseOn(d),
                      volume |-> VolumeOn(mkt, d)]]]

\* ak.futures_zh_daily_sina(symbol="IF0")
FuturesData(mkt, today) ==
    [cols |-> <<"date", "close">>,
     rows |-> LET wd == Workdays(mkt.fstart, today) IN [i \in 1..Len(wd) |->
                 LET d == wd[i]
                 IN  [date |-> strftime(d), close |-> FutCloseOn(d)]]]

\* ak.stock_zh_index_value_csindex(symbol="000300")
ValuationData(mkt, today) ==
    [cols |-> <<"RIQI", "PE1", "PE2">>,
     rows |-> LET wd == Workdays(mkt.vstart, today) IN [i \in 1..Len(wd) |->
                 LET d == wd[i]
                 IN  [RIQI |-> strftime(d), PE1 |-> PeOn(mkt, d),
                      PE2 |-> Int2F(12)]]]

\* ak.bond_zh_us_rate()
BondData(mkt, today) ==
    [cols |-> <<"RIQI", "CN2Y", "CN10Y", "US10Y">>,
     rows |-> LET wd == Workdays(mkt.vstart, today) IN [i \in 1..Len(wd) |->
                 LET d == wd[i]
                 IN  [RIQI |-> strftime(d), CN2Y |-> Int2F(1),
                      CN10Y |-> RateOn(d), US10Y |-> Int2F(4)]]]

\* ak.stock_margin_account_exchange(): the exchange publishes a day late.
MarginData(mkt, today) ==
    [cols |-> <<"RIQI", "RZYE", "RQYE">>,
     rows |-> LET wd == Workdays(mkt.mstart, today - 1) IN [i \in 1..Len(wd) |->
                 LET d == wd[i]
                 IN  [RIQI |-> strftime(d), RZYE |-> MarginOn(mkt, d),
                      RQYE |-> Int2F(7)]]]

(***************************************************************************)
(* The ground-truth directory KTZS, as os.listdir yields it: a sequence of *)
(* files in an order the program has no say in.  A file has a name, a      *)
(* sequence of characters, and a text that float() parses (ok, to the      *)
(* value v: a finite decimal or nan) or raises on.  A directory that does  *)
(* not exist lists no file.                                                *)
(***************************************************************************)
Nothing == [some |-> FALSE, v |-> NaN]
Just(x) == [some |-> TRUE, v |-> x]

Digits == <<"0", "1", "2", "3", "4", "5", "6", "7", "8", "9">>
Digit(n) == Digits[n + 1]

\* date_obj.strftime("%Y%m%d")
Stamp(date_obj) ==
    LET ymd == strftime(date_obj)
        y == ymd[1]
    IN  << Digit(y \div 1000), Digit((y \div 100) % 10), Digit((y \div 10) % 10),
           Digit(y % 10), Digit(ymd[2] \div 10), Digit(ymd[2] % 10),
           Digit(ymd[3] \div 10), Digit(ymd[3] % 10) >>

\* target in f
Contains(f, target) ==
    \E k \in 1..(Len(f) - Len(target) + 1) : SubSeq(f, k, k + Len(target) - 1) = target

\* f.endswith(suffix)
EndsWith(f, suffix) ==
    Len(f) >= Len(suffix) /\ SubSeq(f, Len(f) - Len(suffix) + 1, Len(f)) = suffix

DotTxt == <<".", "t", "x", "t">>

\* get_actual_val: the value of the first file in the listing that is named
\* for the date and parses, None when there is none.
RECURSIVE FirstParsed(_, _, _)
FirstParsed(dir, target, k) ==
    IF k > Len(dir) THEN Nothing
    ELSE IF Contains(dir[k].name, target) /\ EndsWith(dir[k].name, DotTxt) /\ dir[k].ok
         THEN Just(dir[k].v)
         ELSE FirstParsed(dir, target, k + 1)

get_actual_val(date_obj, dir) == FirstParsed(dir, Stamp(date_obj), 1)

\* The index value the authority publishes for day d.
TruthOn(d) == Int2F(98 - 30 * ((d % 7) \div 3))

\* The files of day d: the authority's, a second one holding another value,
\* one that does not parse, one holding nan, and a table that is no .txt.
TruthFile(d)  == [name |-> Stamp(d) \o DotTxt, ok |-> TRUE, v |-> TruthOn(d)]
SecondFile(d) == [name |-> Stamp(d) \o <<"b">> \o DotTxt, ok |-> TRUE,
                  v |-> Num(98125, 1000)]
JunkFile(d)   == [name |-> Stamp(d) \o DotTxt, ok |-> FALSE, v |-> NaN]
NanFile(d)    == [name |-> Stamp(d) \o DotTxt, ok |-> TRUE, v |-> NaN]
ValueFile(d, v) == [name |-> Stamp(d) \o DotTxt, ok |-> TRUE, v |-> v]
TableFile(d)  == [name |-> Stamp(d) \o <<".", "c", "s", "v">>, ok |-> TRUE,
                  v |-> Int2F(1)]

(***************************************************************************)
(* The ledger: df_log is a sequence of labelled rows, the file             *)
(* HISTORY_LOG.csv a sequence of rows.                                     *)
(***************************************************************************)
\* A row: the date text, the six sub-scores and the composite in hundredths,
\* the actual value and the bias as floats, NaN when there is none.
Row(date, fs6, predict, actual, bias) ==
    [date |-> date, f |-> fs6, predict |-> predict, actual |-> actual, bias |-> bias]

\* A row with an actual value.
Closed(row) == ~IsNa(row.actual)

\* A run that reads the old file: pd.read_csv(LOG_FILE) in place of line 172.
InitialLogKeep(old) == [j \in 1..Len(old.rows) |-> [label |-> j - 1, row |-> old.rows[j]]]

\* The ledger a run starts from: main removes the old file (lines 53-55) and
\* starts with an empty frame (line 172), whatever the old file held.
InitialLog(old) == <<>>

\* df.loc[label] = row: the row of that label is replaced, a new label appended.
LocSet(df, label, row) ==
    IF \E j \in 1..Len(df) : df[j].label = label
    THEN [j \in 1..Len(df) |-> IF df[j].label = label
                               THEN [label |-> label, row |-> row] ELSE df[j]]
    ELSE Append(df, [label |-> label, row |-> row])

\* df[df['date'] != t_str]
DropDate(df, t_str) == SelectSeq(df, LAMBDA e : e.row.date # t_str)

\* df.dropna(subset=['actual']).tail(10)
FitRows == 10
DropNoActual(df) == Tail_(SelectSeq(df, LAMBDA e : Closed(e.row)), FitRows)

\* df.sort_values('date'): ascending by the date text, equal dates in the
\* order they had.
SortByDate(df) ==
    LET n == Len(df)
        Before(a, b) == \/ YmdLess(df[a].row.date, df[b].row.date)
                        \/ df[a].row.date = df[b].row.date /\ a < b
        Rank(a) == 1 + Cardinality({b \in 1..n : Before(b, a)})
    IN  [k \in 1..n |-> df[CHOOSE a \in 1..n : Rank(a) = k]]

NoFile == [exists |-> FALSE, rows |-> <<>>]

\* df.to_csv(LOG_FILE, index=False): the rows without their labels.
to_csv(df) == [exists |-> TRUE, rows |-> [j \in 1..Len(df) |-> df[j].row]]

(***************************************************************************)
(* Scores, weights and the bias correction.  Sub-scores and composites     *)
(* are in hundredths, weights are ratios of natural numbers of any size.    *)
(***************************************************************************)
RECURSIVE SumInts(_, _)
SumInts(s, j) == IF j > Len(s) THEN 0 ELSE s[j] + SumInts(s, j + 1)

\* A weight: the ratio n / d of two natural numbers.
Ratio(x) == [n |-> BFromInt(x.n), d |-> BFromInt(x.d)]
RatioLeq(a, b) == ~BLess(BMul(b.n, a.d), BMul(a.n, b.d))
RatioAdd(a, b) ==
    IF a.d = b.d THEN [n |-> BAdd(a.n, b.n), d |-> a.d]
    ELSE [n |-> BAdd(BMul(a.n, b.d), BMul(b.n, a.d)), d |-> BMul(a.d, b.d)]

RECURSIVE RatioSum(_, _)
\* w[1] + ... + w[j], j >= 1
RatioSum(w, j) == IF j = 1 THEN w[1] ELSE RatioAdd(RatioSum(w, j - 1), w[j])

\* The double nearest to a weight.
RoundExact(out) == Round53(out.q, ~out.exact)
WDouble(w) == RoundExact(BDivMod(BShlLimbs(w.n, FracLimbs), w.d))

\* np.array([1/6] * 6)
Uniform == [j \in 1..6 |-> Ratio(Num(1, 6))]
\* bounds=[(0.05, 0.4)] * 6
WLow  == Num(5, 100)
WHigh == Num(40, 100)

\* round(sum(fs) / 6, 2)
p_raw_of(fs6, compensated) ==
    DRound2(DDiv(float_sum([j \in 1..6 |-> ToDouble(fs6[j], 100)], compensated), 6))

\* round(sum(f * w for f, w in zip(today_fs, weights)), 2): the products are
\* numpy doubles, which sum adds one after another, and round of a numpy
\* double is numpy's: rint(x * 100) / 100.
Product(f, w) == DMul(ToDouble(f, 100), WDouble(w))

today_raw_of(fs6, w) ==
    NpRound2(DSumNaive([j \in 1..6 |-> Product(fs6[j], w[j])]))

\* round(act - p_raw, 2), NaN without an actual value
bias_of(act, p_raw) ==
    IF ~act.some \/ ~IsNum(act.v) THEN NaN
    ELSE LET a == ToDouble(Abs(act.v.n), act.v.d)
             b == ToDouble(p_raw, 100)
         IN  IF act.v.n < 0 THEN Num(-DRound2(DAdd(a, b)), 100)
             ELSE IF BLess(a, b) THEN Num(-DRound2(DDist(a, b)), 100)
             ELSE Num(DRound2(DDist(a, b)), 100)

\* A bias in hundredths.
Hundredths(x) == (100 * x.n) \div x.d

\* df_fit['bias'].ewm(alpha=0.5).mean().iloc[-1], 0.0 when df_fit is empty:
\* the mean of the biases weighted 1, 1/2, 1/4, ... from the newest back.
bias_fix_of(fit) ==
    IF Len(fit) = 0 THEN Int2F(0)
    ELSE Num(SumInts([j \in 1..Len(fit) |-> Pow2(j - 1) * Hundredths(fit[j].row.bias)], 1),
             100 * (Pow2(Len(fit)) - 1))

\* round(today_raw + bias_fix, 2), numpy's as well.  The exact sum is a
\* whole number of hundredths (no fit row, or one) or at least 1/2046 of a
\* hundredth away from every tie (the weights of the mean are over 2^n - 1,
\* which is odd), so the rounding errors of the doubles do not decide it.
final_predict_of(raw, fix) == Round2(FAdd(Num(raw, 100), fix))

Lcm(a, b) == (a \div Gcd(a, b)) * b

\* The weights are counted in steps of 1 / WScale, the bounds whole numbers
\* of steps.
WScale == Lcm(WLow.d, WHigh.d)

RECURSIVE YScale(_, _)
\* A common denominator of the actual values of the fit rows fit[1..j].
YScale(fit, j) == IF j = 0 THEN 1 ELSE Lcm(YScale(fit, j - 1), fit[j].row.actual.d)

\* The problem of lines 192-197 in whole numbers: find z, z[j] steps of
\* 1 / (WScale * q) each, that minimises |X z - T|^2 with lo <= z[j] <= hi and
\* z[1] + ... + z[6] = tot.  X holds the sub-scores in hundredths, T the
\* actual values in hundredths times tot.
Problem(fit) ==
    LET q == YScale(fit, Len(fit))
    IN  [X   |-> [r \in 1..Len(fit) |-> fit[r].row.f],
         T   |-> [r \in 1..Len(fit) |->
                    ((100 * WScale * q) \div fit[r].row.actual.d) * fit[r].row.actual.n],
         lo  |-> q * WLow.n * (WScale \div WLow.d),
         hi  |-> q * WHigh.n * (WScale \div WHigh.d),
         tot |-> q * WScale]

\* An active set: each weight at its lower bound (L), at its upper bound (U)
\* or free (F).
ActiveSets == [1..6 -> {"L", "F", "U"}]

AtBound(P, cls, j) == IF cls[j] = "L" THEN P.lo ELSE IF cls[j] = "U" THEN P.hi ELSE 0
FreeOf(cls) == SelectSeq(<<1, 2, 3, 4, 5, 6>>, LAMBDA j : cls[j] = "F")
\* What the weights at their bounds leave to the free ones.
LeftOver(P, cls) == P.tot - SumInts([j \in 1..6 |-> AtBound(P, cls, j)], 1)

\* The free weights can lie strictly inside the bounds and make up the sum.
Roomy(P, cls) ==
    LET f == Len(FreeOf(cls))
    IN  IF f = 0 THEN LeftOver(P, cls) = 0
        ELSE P.lo * f < LeftOver(P, cls) /\ LeftOver(P, cls) < P.hi * f

\* The normal equations [A | b] of the least squares problem that remains
\* when the weights at their bounds are fixed and the free weight p is what
\* the others leave of the sum.
Normal(P, cls, free, p, left) ==
    LET m == Len(free) - 1
        t == Settled([r \in 1..Len(P.X) |->
                 P.T[r] - P.X[r][p] * left
                 - SumInts([j \in 1..6 |-> P.X[r][j] * AtBound(P, cls, j)], 1)])
        D == Settled([r \in 1..Len(P.X) |->
                 Settled([a \in 1..m |-> P.X[r][free[a]] - P.X[r][p]])])
    IN  Settled([a \in 1..m |-> Settled([b \in 1..(m + 1) |->
            IF b <= m
            THEN ZInt(SumInts([r \in 1..Len(D) |-> D[r][a] * D[r][b]], 1))
            ELSE ZSum(Settled([r \in 1..Len(D) |->
                         ZMul(ZInt(D[r][a]), ZInt(t[r]))]), Len(D))])])

\* The point of an active set whose free weights but p are sol.N / sol.det.
Spread(P, cls, p, left, sol) ==
    IF ~sol.ok THEN [ok |-> FALSE, cls |-> cls, det |-> Zero, N |-> <<>>]
    ELSE [ok |-> TRUE, cls |-> cls, det |-> sol.det,
          N |-> Settled([j \in 1..6 |->
                  IF cls[j] # "F" THEN ZMul(ZInt(AtBound(P, cls, j)), sol.det)
                  ELSE IF j = p
                  THEN ZSub(ZMul(ZInt(left), sol.det), ZSum(sol.N, Len(sol.N)))
                  ELSE sol.N[Cardinality({k \in 1..j : cls[k] = "F"})]])]

\* The stationary point of an active set: the last free weight is what the
\* others leave of the sum, and the other free weights solve the normal
\* equations of the least squares problem that remains.  z[j] = N[j] / det.
Stationary(P, cls) ==
    IF Len(FreeOf(cls)) = 0
    THEN [ok |-> TRUE, cls |-> cls, det |-> ZInt(1),
          N |-> Settled([j \in 1..6 |-> ZInt(AtBound(P, cls, j))])]
    ELSE Spread(P, cls, Last(FreeOf(cls)), LeftOver(P, cls),
                SolveLinear(Normal(P, cls, FreeOf(cls), Last(FreeOf(cls)),
                                   LeftOver(P, cls))))

\* Every free weight of the point is strictly inside the bounds.
Inside(P, pt) ==
    \A j \in 1..6 :
        pt.cls[j] = "F" =>
            /\ ~ZLeq(pt.N[j], ZMul(ZInt(P.lo), pt.det))
            /\ ~ZLeq(ZMul(ZInt(P.hi), pt.det), pt.N[j])

\* The gradient of |X z - T|^2 / 2 at the point, times det.
Gradient(P, pt) ==
    LET rho == Settled([r \in 1..Len(P.X) |->
                   ZSub(ZSum(Settled([j \in 1..6 |-> ZMul(ZInt(P.X[r][j]), pt.N[j])]), 6),
                        ZMul(ZInt(P.T[r]), pt.det))])
    IN  Settled([j \in 1..6 |->
            ZSum(Settled([r \in 1..Len(rho) |-> ZMul(ZInt(P.X[r][j]), rho[r])]), Len(rho))])

\* The conditions of Karush, Kuhn and Tucker: no weight that can go down has
\* a steeper slope than a weight that can go up.  The problem is convex, so
\* a point that meets them is a minimiser.
Optimal(P, pt) ==
    LET g == Gradient(P, pt)
    IN  \A a, b \in 1..6 :
            (pt.cls[a] \in {"L", "F"} /\ pt.cls[b] \in {"U", "F"}) => ZLeq(g[b], g[a])

\* The stationary points of the active sets.
Tried(P) == { Stationary(P, cls) : cls \in {c \in ActiveSets : Roomy(P, c)} }
\* The point is a minimiser.
Best(P, pt) == pt.ok /\ pt.det.m # <<>> /\ Inside(P, pt) /\ Optimal(P, pt)
\* The weights of a point, as ratios.
Weights(P, pt) ==
    [j \in 1..6 |-> [n |-> pt.N[j].m, d |-> BMul(pt.det.m, BFromInt(P.tot))]]

\* The minimisers of the problem that are a stationary point of their
\* active set: the minimiser when there is one only, the corners of the set
\* of minimisers otherwise.
Minimisers(P) == { Weights(P, pt) : pt \in {c \in Tried(P) : Best(P, c)} }

\* Where a search that fails has stopped: anywhere.
Stopped == [j \in 1..6 |-> Ratio(Num(j, 10))]

\* What scipy.optimize.minimize may report on the fit rows.  On success x is
\* a minimiser of the sum of squares over the weights within the bounds that
\* sum to 1: the search (SLSQP) ends within its tolerance of one, and the
\* minimiser stands for the point it ends at.  On failure x is wherever the
\* search stopped.
OptResults(fit) ==
    { [success |-> TRUE, x |-> w] : w \in Minimisers(Problem(fit)) }
    \cup { [success |-> FALSE, x |-> Stopped] }
NoRes == [success |-> FALSE, x |-> Uniform]

MinFit == 5

\* The fit without the test of res.success.
WeightsNoCheck(fit, res) == IF Len(fit) >= MinFit THEN res.x ELSE Uniform

\* Lines 189-198: the weights after the fit.
WeightsAfterFit(fit, res) ==
    IF Len(fit) >= MinFit /\ res.success THEN res.x ELSE Uniform

(***************************************************************************)
(* State.                                                                  *)
(***************************************************************************)
VARIABLES
    mkt,            \* the market: what the providers hold
    today,          \* datetime.now().date()
    truth,          \* the listing of the ground-truth directory
    compensated,    \* the interpreter: whether its sum() of floats is the
                    \* compensated one (CPython 3.12 and later)
    prescaled,      \* the scipy installed: whether percentileofscore scales
                    \* the count by 100.0 / n (scipy 1.9 and later)
    logfile,        \* HISTORY_LOG.csv
    pc,             \* where main is
    tries,          \* failed attempts of the fetch under way
    df_p, df_fut, df_val, df_bond, df_margin,
    i,              \* the backfill loop's counter
    target, fs,     \* the last call of calculate_factors: its date, its result
    df_log, df_fit, res, weights,
    today_fs, today_raw, bias_fix, final_predict,
    file0,          \* history: the ledger file as the run under way found it
    prev,           \* history: the inputs and the ledger of the last run that saved
    rerun,          \* history: whether the run that just saved had the inputs of
                    \* the run that saved before it, and the ledger of that run
    hist, cur, inv, score   \* one call of get_score: its arguments, its result

world  == <<mkt, today, truth, compensated, prescaled>>
frames == <<df_p, df_fut, df_val, df_bond, df_margin>>
locals == <<i, target, fs, df_log, df_fit, res, weights,
            today_fs, today_raw, bias_fix, final_predict>>
ghost  == <<file0, prev, rerun>>
scorer == <<hist, cur, inv, score>>
vars   == <<world, logfile, pc, tries, frames, locals, ghost, scorer>>

StartDay == 53 * 7
Lookback == 14
Retries  == 3
MaxDays  == 1

NoFs == <<>>
NoPrev == [valid |-> FALSE, inputs |-> <<>>, file |-> NoFile]
NoScore == [some |-> FALSE, v |-> Neutral]
NoRerun == [same |-> FALSE, file |-> NoFile]

Never == StartDay * 1000

\* A young market: the price history passes 30 rows inside the lookback
\* window, the other series start later still; on one day the P/E is 0 and
\* the margin balance is text.
YoungMarket ==
    [pstart |-> StartDay - 49, fstart |-> StartDay - 21, vstart |-> StartDay - 28,
     mstart |-> StartDay - 28, halt |-> Never, badpe |-> Never,
     zeroday |-> StartDay - 6, mspan |-> 5]

\* An old market: the price history passes 259 rows inside the lookback window.
OldMarket ==
    [pstart |-> 0, fstart |-> StartDay - 21, vstart |-> StartDay - 28,
     mstart |-> StartDay - 28, halt |-> Never, badpe |-> Never,
     zeroday |-> StartDay - 3, mspan |-> 5]

\* A market whose trading halts (volume 0 from then on) and whose valuation
\* series holds text in place of a P/E on one day.
HaltedMarket ==
    [pstart |-> StartDay - 56, fstart |-> StartDay - 21, vstart |-> StartDay - 28,
     mstart |-> StartDay - 10, halt |-> StartDay - 35, badpe |-> StartDay - 4,
     zeroday |-> Never, mspan |-> 5]

\* A market with a long margin history: on 2024-12-27 it holds 96 balances,
\* 15 of them no greater than the last, and 100 x 15 / 96 = 15.625 is a tie
\* of the rounding to two decimals.
SteadyMarket ==
    [pstart |-> StartDay - 49, fstart |-> StartDay - 21, vstart |-> StartDay - 28,
     mstart |-> StartDay - 143, halt |-> Never, badpe |-> Never,
     zeroday |-> Never, mspan |-> 7]

Markets == {YoungMarket}
FactorMarkets == {YoungMarket, OldMarket, HaltedMarket, SteadyMarket}

\* The directory early on: values for two days of the lookback window, for
\* the second of them in two files that os.listdir yields in either order,
\* and files that give no value.
EarlyTruth ==
    { <<TruthFile(StartDay - 11), first, second, JunkFile(StartDay - 7),
        NanFile(StartDay - 6), TableFile(StartDay - 5)>> :
        <<first, second>> \in { <<TruthFile(StartDay - 10), SecondFile(StartDay - 10)>>,
                                <<SecondFile(StartDay - 10), TruthFile(StartDay - 10)>> } }

\* The directory later on: values for six days of the lookback window.
FullTruth ==
    << TruthFile(StartDay - 11), SecondFile(StartDay - 10), TruthFile(StartDay - 10),
       TruthFile(StartDay - 7), TruthFile(StartDay - 6), NanFile(StartDay - 5),
       TruthFile(StartDay - 4), TruthFile(StartDay - 3) >>

\* The directory with other values for the last two days.
OtherTruth ==
    << TruthFile(StartDay - 11), SecondFile(StartDay - 10), TruthFile(StartDay - 10),
       TruthFile(StartDay - 7), TruthFile(StartDay - 6), NanFile(StartDay - 5),
       ValueFile(StartDay - 4, Int2F(75)), ValueFile(StartDay - 3, Int2F(80)) >>

\* The directory a day or two before that: values for five days of the
\* lookback window, the fewest the fit takes, and for four, one too few.
FiveTruth == SubSeq(FullTruth, 1, 7)
FourTruth == SubSeq(FullTruth, 1, 6)

\* The interpreter, the scipy and the directory a run meets.
Worlds ==
    { [sum |-> c, scaled |-> p, dir |-> t] :
        c \in BOOLEAN, p \in BOOLEAN, t \in EarlyTruth }

LocalsInit ==
    /\ i = 0 /\ target = 0 /\ fs = NoFs
    /\ df_log = <<>> /\ df_fit = <<>> /\ res = NoRes /\ weights = Uniform
    /\ today_fs = NoFs /\ today_raw = 0 /\ bias_fix = Int2F(0) /\ final_predict = 0

FramesInit ==
    /\ df_p = EmptyFrame /\ df_fut = EmptyFrame /\ df_val = EmptyFrame
    /\ df_bond = EmptyFrame /\ df_margin = EmptyFrame

ScorerInit == hist = <<>> /\ cur = NaN /\ inv = FALSE /\ score = NoScore

Init ==
    /\ mkt \in Markets /\ today = StartDay
    /\ \E w \in Worlds : compensated = w.sum /\ prescaled = w.scaled /\ truth = w.dir
    /\ logfile = NoFile /\ pc = "idle" /\ tries = 0
    /\ FramesInit /\ LocalsInit
    /\ file0 = NoFile /\ prev = NoPrev /\ rerun = NoRerun
    /\ ScorerInit

(***************************************************************************)
(* main, step by step.                                                     *)
(***************************************************************************)
Resting == pc \in {"idle", "done", "aborted"}

\* Lines 51-58: a run starts; the old ledger file is removed.
Start ==
    /\ Resting
    /\ pc' = "fetch_p" /\ tries' = 0
    /\ file0' = logfile
    /\ logfile' = NoFile
    /\ df_log' = InitialLog(logfile)
    /\ df_p' = EmptyFrame /\ df_fut' = EmptyFrame /\ df_val' = EmptyFrame
    /\ df_bond' = EmptyFrame /\ df_margin' = EmptyFrame
    /\ i' = 0 /\ target' = 0 /\ fs' = NoFs
    /\ df_fit' = <<>> /\ res' = NoRes /\ weights' = Uniform
    /\ today_fs' = NoFs /\ today_raw' = 0 /\ bias_fix' = Int2F(0) /\ final_predict' = 0
    /\ rerun' = NoRerun
    /\ UNCHANGED <<world, prev, scorer>>

\* What one attempt of a provider call does.
Outcomes == {"data", "empty", "raise"}

\* fetch_data_with_retry: whether the call under way is over after an attempt
\* with this outcome, and the frame it then returns.
FetchOver(out) == out # "raise" \/ tries + 1 >= Retries
Fetched(out, data) == IF out = "data" THEN data ELSE EmptyFrame

Retry ==
    /\ tries' = tries + 1
    /\ UNCHANGED <<world, logfile, pc, frames, locals, ghost, scorer>>

\* Lines 62-63
FetchPrice ==
    /\ pc = "fetch_p"
    /\ \E out \in Outcomes :
        IF ~FetchOver(out) THEN Retry
        ELSE LET got == Fetched(out, PriceData(mkt, today))
             IN  /\ tries' = 0
                 /\ IF HasCol(got, "date")
                    THEN /\ df_p' = WithDateCol(got, "date", "date")
                         /\ pc' = "fetch_fut"
                    ELSE /\ df_p' = got
                         /\ pc' = "aborted"
                 /\ UNCHANGED <<world, logfile, df_fut, df_val, df_bond, df_margin,
                                locals, ghost, scorer>>

\* Lines 65-71
FetchFutures ==
    /\ pc = "fetch_fut"
    /\ \E out \in Outcomes :
        IF ~FetchOver(out) THEN Retry
        ELSE LET got == Fetched(out, FuturesData(mkt, today))
             IN  /\ tries' = 0
                 /\ df_fut' = IF IsEmpty(got) THEN got
                              ELSE WithDateCol(got, "date", "date")
                 /\ pc' = "fetch_val"
                 /\ UNCHANGED <<world, logfile, df_p, df_val, df_bond, df_margin,
                                locals, ghost, scorer>>

\* Lines 73-75
FetchValuation ==
    /\ pc = "fetch_val"
    /\ \E out \in Outcomes :
        IF ~FetchOver(out) THEN Retry
        ELSE LET got == Fetched(out, ValuationData(mkt, today))
             IN  /\ tries' = 0
                 /\ IF HasCol(got, "RIQI")
                    THEN /\ df_val' = WithDateCol(got, "RIQI", "date_key")
                         /\ pc' = "fetch_bond"
                    ELSE /\ df_val' = got
                         /\ pc' = "aborted"
                 /\ UNCHANGED <<world, logfile, df_p, df_fut, df_bond, df_margin,
                                locals, ghost, scorer>>

\* Lines 77-78
FetchBond ==
    /\ pc = "fetch_bond"
    /\ \E out \in Outcomes :
        IF ~FetchOver(out) THEN Retry
        ELSE LET got == Fetched(out, BondData(mkt, today))
             IN  /\ tries' = 0
                 /\ IF HasCol(got, "RIQI")
                    THEN /\ df_bond' = WithDateCol(got, "RIQI", "date_key")
                         /\ pc' = "fetch_margin"
                    ELSE /\ df_bond' = got
                         /\ pc' = "aborted"
                 /\ UNCHANGED <<world, logfile, df_p, df_fut, df_val, df_margin,
                                locals, ghost, scorer>>

\* Lines 80-84, and the ledger frame of lines 170-172
FetchMargin ==
    /\ pc = "fetch_margin"
    /\ \E out \in Outcomes :
        IF ~FetchOver(out) THEN Retry
        ELSE LET got == Fetched(out, MarginData(mkt, today))
             IN  /\ tries' = 0
                 /\ df_margin' = IF IsEmpty(got) THEN got
                                 ELSE WithDateCol(got, "RIQI", "date_key")
                 /\ pc' = "backfill"
                 /\ i' = Lookback
                 /\ UNCHANGED <<world, logfile, df_p, df_fut, df_val, df_bond,
                                target, fs, df_log, df_fit, res, weights, today_fs,
                                today_raw, bias_fix, final_predict, ghost, scorer>>

\* A loop whose day moves at half the pace of its counter.
BackfillDateHalf(k) == today - (k \div 2)

\* The day the backfill loop scores in the pass with counter k (line 175).
BackfillDate(k) == today - k

\* Lines 174-186: one pass of the backfill loop.
BackfillDay ==
    /\ pc = "backfill"
    /\ i >= 1
    /\ LET d == BackfillDate(i)
       IN  IF ~is_workday(d)
           THEN UNCHANGED <<target, fs, df_log>>
           ELSE /\ target' = d
                /\ fs' = calculate_factors(d, df_p, df_fut, df_val, df_bond, df_margin,
                                  prescaled)
                /\ LET p_raw == p_raw_of(fs', compensated)
                       act == get_actual_val(d, truth)
                   IN  df_log' = LocSet(df_log, Len(df_log),
                                       Row(strftime(d), fs', p_raw, act.v,
                                           bias_of(act, p_raw)))
    /\ i' = i - 1
    /\ pc' = IF i = 1 THEN "today" ELSE "backfill"
    /\ UNCHANGED <<world, logfile, tries, frames, df_fit, res, weights, today_fs,
                   today_raw, bias_fix, final_predict, ghost, scorer>>

\* Lines 188-198: the fit of the weights.
FitWeights ==
    /\ df_fit' = DropNoActual(df_log)
    /\ IF Len(df_fit') >= MinFit
       THEN \E r \in OptResults(df_fit') : res' = r
       ELSE res' = NoRes
    /\ weights' = WeightsAfterFit(df_fit', res')

\* Lines 188-212: the weights, today's sub-scores and today's prediction.
ScoreToday ==
    /\ pc = "today"
    /\ target' = today
    /\ today_fs' = calculate_factors(today, df_p, df_fut, df_val, df_bond, df_margin,
                                  prescaled)
    /\ fs' = today_fs'
    /\ FitWeights
    /\ today_raw' = today_raw_of(today_fs', weights')
    /\ bias_fix' = bias_fix_of(df_fit')
    /\ final_predict' = final_predict_of(today_raw', bias_fix')
    /\ pc' = "save"
    /\ UNCHANGED <<world, logfile, tries, frames, i, df_log, ghost, scorer>>

RunInputs ==
    <<today, truth, compensated, prescaled, df_p, df_fut, df_val, df_bond, df_margin, res>>

\* Lines 214-222
Save ==
    /\ pc = "save"
    /\ LET t_str == strftime(today)
           kept == DropDate(df_log, t_str)
       IN  /\ df_log' = LocSet(kept, Len(kept),
                               Row(t_str, today_fs, today_raw, NaN, NaN))
           /\ logfile' = to_csv(SortByDate(df_log'))
    /\ rerun' = [same |-> prev.valid /\ prev.inputs = RunInputs, file |-> prev.file]
    /\ prev' = [valid |-> TRUE, inputs |-> RunInputs, file |-> logfile']
    /\ pc' = "notify"
    /\ UNCHANGED <<world, tries, frames, i, target, fs, df_fit, res, weights, today_fs,
                   today_raw, bias_fix, final_predict, file0, scorer>>

\* Lines 224-262: the card is posted when a webhook is set; a failure to
\* deliver is logged and the run ends all the same.
Notify ==
    /\ pc = "notify"
    /\ \E delivery \in {"sent", "failed", "no webhook"} : pc' = "done"
    /\ UNCHANGED <<world, logfile, tries, frames, locals, ghost, scorer>>

\* Between runs a day passes, and the authority publishes its value for the
\* workday that ends.  No later run has the inputs of an earlier day's.
NextDay ==
    /\ Resting
    /\ today < StartDay + MaxDays
    /\ today' = today + 1
    /\ truth' = IF is_workday(today) THEN Append(truth, TruthFile(today)) ELSE truth
    /\ prev' = NoPrev
    /\ UNCHANGED <<mkt, compensated, prescaled, logfile, pc, tries, frames, locals, file0,
                   rerun,
                   scorer>>

Next ==
    \/ Start \/ FetchPrice \/ FetchFutures \/ FetchValuation \/ FetchBond
    \/ FetchMargin \/ BackfillDay \/ ScoreToday \/ Save \/ Notify \/ NextDay

Spec == Init /\ [][Next]_vars

(***************************************************************************)
(* calculate_factors on its own: it is called for one day after another    *)
(* on frames as main prepares them, while the providers add later rows,    *)
(* revise them or withdraw them.                                           *)
(***************************************************************************)
\* Lines 62-84 when every provider answers.
LoadPrice(m, t)     == WithDateCol(PriceData(m, t), "date", "date")
LoadFutures(m, t)   == WithDateCol(FuturesData(m, t), "date", "date")
LoadValuation(m, t) == WithDateCol(ValuationData(m, t), "RIQI", "date_key")
LoadBond(m, t)      == WithDateCol(BondData(m, t), "RIQI", "date_key")
LoadMargin(m, t)    == WithDateCol(MarginData(m, t), "RIQI", "date_key")

\* The frame without its rows dated after day t.
UpTo(df, col, t) ==
    [cols |-> df.cols,
     rows |-> SelectSeq(df.rows, LAMBDA r : ~(r[col] > t))]

\* The frame with every row dated after day t replaced by its row in junk.
RevisedAfter(df, col, t, junk) ==
    [cols |-> df.cols,
     rows |-> [j \in 1..Len(df.rows) |->
                 IF df.rows[j][col] > t THEN junk[j] ELSE df.rows[j]]]

JunkPrice(rows) == [j \in 1..Len(rows) |-> [rows[j] EXCEPT !["close"] = Int2F(7), !["volume"] = Int2F(0)]]
JunkFut(rows) == [j \in 1..Len(rows) |-> [rows[j] EXCEPT !["close"] = Int2F(1000)]]
JunkVal(rows) == [j \in 1..Len(rows) |-> [rows[j] EXCEPT !["PE1"] = Str]]
JunkBond(rows) == [j \in 1..Len(rows) |-> [rows[j] EXCEPT !["CN10Y"] = Str]]
JunkMargin(rows) == [j \in 1..Len(rows) |-> [rows[j] EXCEPT !["RZYE"] = Int2F(1)]]

InitFactors ==
    /\ mkt \in FactorMarkets /\ today = StartDay /\ truth = <<>> /\ compensated = FALSE
    /\ prescaled \in BOOLEAN
    /\ logfile = NoFile /\ pc = "factors" /\ tries = 0
    /\ df_p = LoadPrice(mkt, today) /\ df_fut = LoadFutures(mkt, today)
    /\ df_val = LoadValuation(mkt, today) /\ df_bond = LoadBond(mkt, today)
    /\ df_margin = LoadMargin(mkt, today)
    /\ i = 0 /\ target = StartDay - Lookback - 1 /\ fs = NoFs
    /\ df_log = <<>> /\ df_fit = <<>> /\ res = NoRes /\ weights = Uniform
    /\ today_fs = NoFs /\ today_raw = 0 /\ bias_fix = Int2F(0) /\ final_predict = 0
    /\ file0 = NoFile /\ prev = NoPrev /\ rerun = NoRerun
    /\ ScorerInit

\* The next day is scored.
EvalNext ==
    /\ pc = "factors"
    /\ target < today
    /\ target' = target + 1
    /\ fs' = calculate_factors(target', df_p, df_fut, df_val, df_bond, df_margin,
                                  prescaled)
    /\ UNCHANGED <<world, logfile, pc, tries, frames, i, df_log, df_fit, res, weights,
                   today_fs, today_raw, bias_fix, final_predict, ghost, scorer>>

\* A day passes and the frames are fetched again: each holds later rows,
\* all dated after the day last scored.
MoreData ==
    /\ pc = "factors"
    /\ target < today
    /\ today < StartDay + MaxDays
    /\ today' = today + 1
    /\ df_p' = LoadPrice(mkt, today') /\ df_fut' = LoadFutures(mkt, today')
    /\ df_val' = LoadValuation(mkt, today') /\ df_bond' = LoadBond(mkt, today')
    /\ df_margin' = LoadMargin(mkt, today')
    /\ UNCHANGED <<mkt, truth, compensated, prescaled, logfile, pc, tries, locals, ghost,
                   scorer>>

\* The providers rewrite every row dated after the day last scored.
Revise ==
    /\ pc = "factors" /\ fs # NoFs /\ target < today
    /\ df_p' = RevisedAfter(df_p, "date", target, JunkPrice(df_p.rows))
    /\ df_fut' = RevisedAfter(df_fut, "date", target, JunkFut(df_fut.rows))
    /\ df_val' = RevisedAfter(df_val, "date_key", target, JunkVal(df_val.rows))
    /\ df_bond' = RevisedAfter(df_bond, "date_key", target, JunkBond(df_bond.rows))
    /\ df_margin' = RevisedAfter(df_margin, "date_key", target, JunkMargin(df_margin.rows))
    /\ pc' = "changed"
    /\ UNCHANGED <<world, logfile, tries, locals, ghost, scorer>>

\* The providers withdraw every row dated after the day last scored.
Withdraw ==
    /\ pc = "factors" /\ fs # NoFs /\ target < today
    /\ df_p' = UpTo(df_p, "date", target)
    /\ df_fut' = UpTo(df_fut, "date", target)
    /\ df_val' = UpTo(df_val, "date_key", target)
    /\ df_bond' = UpTo(df_bond, "date_key", target)
    /\ df_margin' = UpTo(df_margin, "date_key", target)
    /\ pc' = "changed"
    /\ UNCHANGED <<world, logfile, tries, locals, ghost, scorer>>

\* The day last scored is scored again, on the changed frames.
EvalAgain ==
    /\ pc = "changed"
    /\ fs' = calculate_factors(target, df_p, df_fut, df_val, df_bond, df_margin,
                                  prescaled)
    /\ pc' = "again"
    /\ UNCHANGED <<world, logfile, tries, frames, i, target, df_log, df_fit, res,
                   weights, today_fs, today_raw, bias_fix, final_predict, ghost, scorer>>

NextFactors == EvalNext \/ MoreData \/ Revise \/ Withdraw \/ EvalAgain

SpecFactors == InitFactors /\ [][NextFactors]_vars

(***************************************************************************)
(* The fit on its own: one run from the fetched frames on, over a          *)
(* directory that holds values for five days and more of the lookback      *)
(* window, so that the optimizer is called, or for fewer, so that it is    *)
(* not.                                                                    *)
(***************************************************************************)
InitFit ==
    /\ mkt = YoungMarket /\ today = StartDay /\ truth \in {FourTruth, FiveTruth, FullTruth, OtherTruth}
    /\ compensated \in BOOLEAN /\ prescaled \in BOOLEAN
    /\ logfile = NoFile /\ pc = "backfill" /\ tries = 0
    /\ df_p = LoadPrice(mkt, today) /\ df_fut = LoadFutures(mkt, today)
    /\ df_val = LoadValuation(mkt, today) /\ df_bond = LoadBond(mkt, today)
    /\ df_margin = LoadMargin(mkt, today)
    /\ i = Lookback /\ target = 0 /\ fs = NoFs
    /\ df_log = <<>> /\ df_fit = <<>> /\ res = NoRes /\ weights = Uniform
    /\ today_fs = NoFs /\ today_raw = 0 /\ bias_fix = Int2F(0) /\ final_predict = 0
    /\ file0 = NoFile /\ prev = NoPrev /\ rerun = NoRerun
    /\ ScorerInit

NextFit == BackfillDay \/ ScoreToday \/ Save \/ Notify

SpecFit == InitFit /\ [][NextFit]_vars

(***************************************************************************)
(* get_score on its own, on histories built from a few short ones by       *)
(* appending values and by repeating the history.                          *)
(***************************************************************************)
MaxShort == 6
MaxHist  == 750

Ints(s) == [j \in 1..Len(s) |-> Int2F(s[j])]

BaseHists ==
    { <<>>,
      Ints(<<10, 20, 20, 30>>),
      Ints(<<1, 2, 3, 4, 5>>),
      <<NaN, Int2F(20), Str, Int2F(10), PInf>> }

Appended == {Int2F(20), NaN, Str}
Currents == {Int2F(3), Int2F(20), Int2F(25), NaN, NInf}

InitScore ==
    /\ mkt = YoungMarket /\ today = StartDay /\ truth = <<>> /\ compensated = FALSE
    /\ prescaled \in BOOLEAN
    /\ logfile = NoFile /\ pc = "scorer" /\ tries = 0
    /\ FramesInit /\ LocalsInit
    /\ file0 = NoFile /\ prev = NoPrev /\ rerun = NoRerun
    /\ hist \in BaseHists /\ cur = NaN /\ inv = FALSE /\ score = NoScore

AppendValue ==
    /\ pc = "scorer"
    /\ Len(hist) >= 4 /\ Len(hist) < MaxShort
    /\ \E v \in Appended : hist' = Append(hist, v)
    /\ score' = NoScore
    /\ UNCHANGED <<world, logfile, pc, tries, frames, locals, ghost, cur, inv>>

RepeatHist ==
    /\ pc = "scorer"
    /\ Len(hist) > 0 /\ Len(hist) <= MaxHist
    /\ hist' = hist \o hist
    /\ score' = NoScore
    /\ UNCHANGED <<world, logfile, pc, tries, frames, locals, ghost, cur, inv>>

Score ==
    /\ pc = "scorer"
    /\ ~score.some
    /\ \E c \in Currents, invert \in BOOLEAN :
        /\ cur' = c /\ inv' = invert
        /\ score' = [some |-> TRUE, v |-> get_score(hist, c, invert, prescaled)]
    /\ UNCHANGED <<world, logfile, pc, tries, frames, locals, ghost, hist>>

NextScore == AppendValue \/ RepeatHist \/ Score

SpecScore == InitScore /\ [][NextScore]_vars

(***************************************************************************)
(* The claims.                                                             *)
(***************************************************************************)
Scoring == pc \in {"factors", "changed", "again"} /\ fs # NoFs
Saved   == pc \in {"notify", "done"}

\* C1 (no look-ahead): the sub-scores calculate_factors returned for a day
\* are those it returns on the frames cut to that day, whatever rows dated
\* after the day the frames hold, have had added, rewritten or withdrawn.
C1_NoLookAhead ==
    Scoring =>
        fs = calculate_factors(target, UpTo(df_p, "date", target),
                               UpTo(df_fut, "date", target),
                               UpTo(df_val, "date_key", target),
                               UpTo(df_bond, "date_key", target),
                               UpTo(df_margin, "date_key", target), prescaled)

\* A day scored again after every later row was rewritten, some sub-score
\* not neutral.
C1_Witness ==
    /\ pc = "again" /\ fs # AllNeutral
    /\ \E j \in 1..Len(df_p.rows) :
          df_p.rows[j]["date"] > target /\ df_p.rows[j]["close"] = Int2F(7)
    /\ \E j \in 1..Len(df_val.rows) :
          df_val.rows[j]["date_key"] > target /\ df_val.rows[j]["PE1"] = Str

\* The rows of a frame dated no later than the day being scored.
Past(df, col) == SelectSeq(df.rows, LAMBDA r : r[col] <= target)
FewPrices == Len(Past(df_p, "date")) < MinPrice

\* A number, finite or infinite: neither missing nor text.
Numeric(x) == x.k \in {"num", "pinf", "ninf"}

\* How many entries of a statistic are numbers.
NumericCount(s) == Cardinality({j \in 1..Len(s) : Numeric(s[j])})

\* A value that is not defined: NaN (an incomplete window, 0 / 0) or the
\* infinity that a division of a number other than 0 by 0 gives.
Undefined(x) == IsNa(x) \/ x.k \in {"pinf", "ninf"}

\* The statistic has too few numeric values, or its current value is undefined.
Thin(s) == Len(s) = 0 \/ NumericCount(s) < MinStat \/ Undefined(Last(s))

\* The statistic behind sub-score k, on the rows up to the day being scored.
StatOf(k) ==
    LET cut_p == Past(df_p, "date")
    IN  CASE k = 1 -> Stat1(cut_p)
          [] k = 2 -> Stat2(cut_p)
          [] k = 3 -> Stat3(cut_p)
          [] k = 4 -> Stat4(cut_p, target, df_fut)
          [] k = 5 -> Stat5(ErpFrame(target, df_val, df_bond))
          [] k = 6 -> Stat6(Past(df_margin, "date_key"),
                            FirstCol(df_margin.cols, HasMargin))

\* A P/E or yield cell of the joined rows up to the day being scored is text.
ErpText ==
    LET erp_df == ErpFrame(target, df_val, df_bond)
    IN  \E j \in 1..Len(erp_df) : erp_df[j][1] = Str \/ erp_df[j][2] = Str

\* Sub-score k lacks what it needs: fewer than 30 price rows, no row of its
\* own series, fewer than 10 numeric values, or an undefined current value.
NeutralCase(k) ==
    \/ FewPrices
    \/ k = 4 /\ Len(Past(df_fut, "date")) = 0
    \/ k = 5 /\ (Len(Past(df_val, "date_key")) = 0 \/ Len(Past(df_bond, "date_key")) = 0)
    \/ k = 6 /\ Len(Past(df_margin, "date_key")) = 0
    \/ ~(k = 5 /\ ErpText) /\ Thin(StatOf(k))

\* C3 (neutral default): a sub-score whose data is insufficient (fewer than
\* 30 price rows, an empty series, fewer than 10 numeric observations) or
\* whose current statistic is undefined (an incomplete rolling window, a
\* division by zero) is exactly 50.0, never an extreme value.
C3_NeutralDefault ==
    Scoring => \A k \in 1..6 : NeutralCase(k) => fs[k] = 5000

\* The frame with the text cells of a column read as missing values.
CleanText(df, col) ==
    [cols |-> df.cols,
     rows |-> [j \in 1..Len(df.rows) |->
                 IF df.rows[j][col] = Str THEN [df.rows[j] EXCEPT ![col] = NaN]
                 ELSE df.rows[j]]]

\* C9 (per-factor failure isolation): when the computation of one sub-score
\* raises (a text P/E or yield cell, line 147), the other five sub-scores
\* are what they are when that cell is a missing value.
C9_FailureIsolated ==
    (Scoring /\ ~FewPrices /\ ErpText) =>
        LET ok == calculate_factors(target, df_p, df_fut, CleanText(df_val, "PE1"),
                                    CleanText(df_bond, "CN10Y"), df_margin, prescaled)
        IN  \A k \in {1, 2, 3, 4, 6} : fs[k] = ok[k]

\* How many of the values s[lo..hi] are <= v.
Leq(s, lo, hi, v) == Cardinality({j \in lo..hi : FLeq(s[j], v)})

\* The double x is share / n to within 2^-40, for 0 <= share and 0 < n.
Near(x, share, n) ==
    LET mine   == BMulSmall(x.u, n)
        theirs == BShlLimbs(BFromInt(share), FracLimbs)
        gap    == IF x.neg THEN BAdd(mine, theirs)
                  ELSE IF BLess(mine, theirs) THEN BSub(theirs, mine)
                  ELSE BSub(mine, theirs)
    IN  ~BLess(BShl(BFromInt(n), FracLimbs * LimbBits - 40), gap)

\* 100 x count / n, or 100 minus that, as the share of n it is.
Share(count, n) == 100 * (IF inv THEN n - count ELSE count)

\* C4 as stated (percentile convention): for any history of numbers and any
\* current number, get_score returns 100 x (number of history values <=
\* current) / (number of history values), and 100 minus that when inverted,
\* to within the rounding of doubles.
C4_AnyHistory ==
    (pc = "scorer" /\ score.some /\ Len(hist) > 0 /\ cur.k = "num"
        /\ \A j \in 1..Len(hist) : hist[j].k = "num")
    => Near(score.v, Share(Leq(hist, 1, Len(hist), cur), Len(hist)), Len(hist))

\* C4 amended: with fewer than 10 numeric history values, or a NaN current
\* value, get_score returns 50.0; otherwise it returns 100 x (number of
\* values <= current among the last 750 numeric history values) / (number of
\* those values), and 100 minus that when inverted, to within the rounding
\* of doubles.
C4_PercentileConvention ==
    (pc = "scorer" /\ score.some) =>
        LET nums == SelectSeq(hist, Numeric)
            n    == Len(nums)
            lo   == IF n > ScoreWindow THEN n - ScoreWindow + 1 ELSE 1
        IN  IF n < MinStat \/ cur = NaN THEN score.v = Neutral
            ELSE Near(score.v, Share(Leq(nums, lo, n, cur), n - lo + 1), n - lo + 1)

\* The history 10, 20, 20, 30 four times over, current value 20: 75.0.
C4_Witness ==
    /\ pc = "scorer" /\ score.some /\ ~inv /\ cur = Int2F(20)
    /\ hist = Ints(<<10, 20, 20, 30, 10, 20, 20, 30, 10, 20, 20, 30, 10, 20, 20, 30>>)
    /\ score.v = Plus(DInt(75))

Predicted == pc \in {"save", "notify", "done"}

\* C2 (clamping): the bias-corrected final prediction is within [0, 100],
\* whatever the raw composite and the bias correction.
C2_Clamped == Predicted => (final_predict >= 0 /\ final_predict <= 100 * 100)

\* C5 (weight validity): the weights that combine today's six sub-scores sum
\* to 1 and each lies within [0.05, 0.4], whether the fit was skipped, the
\* optimizer failed or the optimizer succeeded.
C5_WeightsValid ==
    Predicted =>
        /\ LET total == RatioSum(weights, 6) IN total.n = total.d
        /\ \A j \in 1..6 : /\ RatioLeq(Ratio(WLow), weights[j])
                            /\ RatioLeq(weights[j], Ratio(WHigh))

\* The optimizer ran on five closed rows or more and reported success, and
\* today's composite was formed with its result, a weight of which is at
\* neither bound.
C5_Witness ==
    /\ Predicted /\ Len(df_fit) >= MinFit /\ res.success
    /\ weights = res.x /\ weights # Uniform
    /\ \E j \in 1..6 : /\ ~RatioLeq(weights[j], Ratio(WLow))
                       /\ ~RatioLeq(Ratio(WHigh), weights[j])
    /\ today_raw = today_raw_of(today_fs, weights)

\* C6 (ledger row uniqueness): the persisted ledger has at most one row per
\* date, and after a run its rows are the rows that run computed, the last
\* of them the open row of the day of the run.
C6_OneRowPerDate ==
    /\ \A a, b \in 1..Len(logfile.rows) :
          logfile.rows[a].date = logfile.rows[b].date => a = b
    /\ Saved => /\ \A a \in 1..Len(logfile.rows) :
                      \E b \in 1..Len(df_log) : df_log[b].row = logfile.rows[a]
                /\ LET last == logfile.rows[Len(logfile.rows)]
                   IN  /\ last.f = today_fs /\ last.predict = today_raw
                       /\ IsNa(last.actual) /\ IsNa(last.bias)

\* A run saved over a ledger holding a date with other values: the date is
\* in the new ledger once, with the new values.
C6_Witness ==
    /\ Saved /\ file0.exists
    /\ \E a \in 1..Len(file0.rows), b \in 1..Len(logfile.rows) :
          /\ file0.rows[a].date = logfile.rows[b].date
          /\ file0.rows[a] # logfile.rows[b]

\* C7 (idempotent reconciliation): a run on the date, the provider frames,
\* the ground-truth files and the optimizer outcome of the run before it
\* leaves the ledger that run left.
C7_Idempotent == (Saved /\ rerun.same) => logfile = rerun.file

\* A second run on the inputs of the first, with closed rows in the ledger.
C7_Witness ==
    /\ pc = "done" /\ rerun.same /\ rerun.file.exists /\ logfile.exists
    /\ \E a \in 1..Len(logfile.rows) : Closed(logfile.rows[a])

\* C8 (always produces a score): whatever each of the five fetches returns,
\* the run is not aborted.
C8_NeverAborted == pc # "aborted"

\* C10 (reconciliation frame): every row of the ledger before the run that
\* is closed, or dated before the 14-day lookback window, is in the ledger
\* after the run, unchanged.
C10_FrameKept ==
    Saved =>
        \A a \in 1..Len(file0.rows) :
            LET r == file0.rows[a]
            IN  (Closed(r) \/ YmdLess(r.date, strftime(today - Lookback)))
                => \E b \in 1..Len(logfile.rows) : logfile.rows[b] = r

=============================================================================
